---- MODULE Spec2Model ----
(***************************************************************************)
(* Genesis block assembly of node-cli (src/node-cli/src/genesis.rs):       *)
(* GenesisConfig::to_block, Alloc::to_transaction, parse_hex,              *)
(* get_transaction_hash and calculate_block_id.                            *)
(*                                                                         *)
(* Byte strings.  A byte string is a sequence of chunks.  A chunk is       *)
(* either one literal byte (Lit(b), 0 <= b <= 255) or a run of consecutive *)
(* bytes of a SHA-256 digest (Slice(m, lo, hi): bytes lo..hi of the digest *)
(* of the byte string m).  SHA-256 itself is not computed: the digest of m *)
(* is the 32-byte string <<Slice(m, 0, 31)>>, so two digests are equal     *)
(* exactly when their messages are (the collision-free idealisation), and  *)
(* overwriting or cutting digest bytes is still computed byte by byte.     *)
(*                                                                         *)
(* Integers.  TLC's integers are 32 bits wide; the i64 fields range over   *)
(* values inside that width and every i64 conversion (two's complement     *)
(* big-endian bytes, varint groups) is computed by repeated floor division *)
(* so that no intermediate value leaves it.                                *)
(***************************************************************************)
EXTENDS Integers, Sequences, FiniteSets, TLC

\* ------------------------------------------------------------ byte strings

Lit(b) == [lit |-> b, sha |-> <<>>, lo |-> 0, hi |-> 0]

Slice(m, lo, hi) == [lit |-> -1, sha |-> m, lo |-> lo, hi |-> hi]

IsLit(c) == c.lit >= 0

ChunkLen(c) == IF IsLit(c) THEN 1 ELSE c.hi - c.lo + 1

\* The number of bytes of a byte string (summed by halves).
RECURSIVE ByteLenOf(_, _, _)
ByteLenOf(bs, from, to) ==
    IF from > to THEN 0
    ELSE IF from = to THEN ChunkLen(bs[from])
    ELSE LET mid == (from + to) \div 2
         IN  ByteLenOf(bs, from, mid) + ByteLenOf(bs, mid + 1, to)

ByteLen(bs) == ByteLenOf(bs, 1, Len(bs))

\* The literal byte string of a sequence of numbers 0..255.
Lits(ns) == [i \in 1..Len(ns) |-> Lit(ns[i])]

\* bs[n..]: the byte string without its first n bytes.
RECURSIVE DropBytes(_, _)
DropBytes(bs, n) ==
    IF n = 0 \/ bs = <<>> THEN bs
    ELSE LET c == Head(bs) IN
         IF ChunkLen(c) <= n THEN DropBytes(Tail(bs), n - ChunkLen(c))
         ELSE <<Slice(c.sha, c.lo + n, c.hi)>> \o Tail(bs)

\* bs[..n]: the first n bytes of the byte string.
RECURSIVE TakeBytes(_, _)
TakeBytes(bs, n) ==
    IF n = 0 \/ bs = <<>> THEN <<>>
    ELSE LET c == Head(bs) IN
         IF ChunkLen(c) <= n THEN <<c>> \o TakeBytes(Tail(bs), n - ChunkLen(c))
         ELSE <<Slice(c.sha, c.lo, c.lo + n - 1)>>

\* Option<T>: None is the empty sequence, Some(x) the one-element sequence.
None == <<>>

Some(x) == <<x>>

IsSome(o) == Len(o) = 1

Unwrap(o) == o[1]

\* ------------------------------------------------------------ digest

\* Sha256::new(); input(buf); result(), transmuted to H256 (32 bytes, same layout).
Sha256(m) == <<Slice(m, 0, 31)>>

H256Len == 32

\* ------------------------------------------------------------ integers

\* The low byte of the two's complement form of n shifted right by 8 * k bits.
RECURSIVE ShiftRight8(_, _)
ShiftRight8(n, k) == IF k = 0 THEN n ELSE ShiftRight8(n \div 256, k - 1)

I64Len == 8

\* The 8 bytes of n in byteorder::LE order, least significant first.
LE_write_i64(n) == Lits([i \in 1..I64Len |-> ShiftRight8(n, i - 1) % 256])

\* byteorder::BE::write_i64: the 8 bytes of n, most significant first.
BE_write_i64(n) == Lits([i \in 1..I64Len |-> ShiftRight8(n, I64Len - i) % 256])

\* The 8 literal bytes bs, read as a big-endian two's complement integer, are n
\* (n within 32 bits): the upper four bytes are the sign extension, the lower
\* four the base-256 digits of n.
ReadsBigEndianAs(bs, n) ==
    /\ Len(bs) = I64Len
    /\ \A i \in 1..I64Len :
           bs[i].lit = IF i <= 4 THEN (IF n < 0 THEN 255 ELSE 0)
                       ELSE (n \div (256 ^ (I64Len - i))) % 256

AllLit(bs) == \A i \in 1..Len(bs) : IsLit(bs[i])

\* ------------------------------------------------------------ strings

\* A String is a sequence of characters, each written as a string: the one-byte
\* (ASCII) characters as themselves, listed here from code 32 on (the grave
\* accent, code 96, by its name), and "e_acute" (U+00E9) for the characters
\* outside ASCII.
AsciiChars == <<
    " ", "!", "\"", "#", "$", "%", "&", "'", "(", ")", "*", "+", ",", "-", ".", "/",
    "0", "1", "2", "3", "4", "5", "6", "7", "8", "9", ":", ";", "<", "=", ">", "?",
    "@", "A", "B", "C", "D", "E", "F", "G", "H", "I", "J", "K", "L", "M", "N", "O",
    "P", "Q", "R", "S", "T", "U", "V", "W", "X", "Y", "Z", "[", "\\", "]", "^", "_",
    "grave", "a", "b", "c", "d", "e", "f", "g", "h", "i", "j", "k", "l", "m", "n", "o",
    "p", "q", "r", "s", "t", "u", "v", "w", "x", "y", "z", "{", "|", "}", "~" >>

\* The UTF-8 bytes of one character.
Utf8(c) ==
    IF c = "e_acute" THEN <<195, 169>>
    ELSE <<31 + CHOOSE i \in 1..Len(AsciiChars) : AsciiChars[i] = c>>

\* str::as_bytes: the UTF-8 bytes of the string, as numbers.
RECURSIVE as_bytes_of(_, _, _)
as_bytes_of(s, from, to) ==
    IF from > to THEN <<>>
    ELSE IF from = to THEN Utf8(s[from])
    ELSE LET mid == (from + to) \div 2
         IN  as_bytes_of(s, from, mid) \o as_bytes_of(s, mid + 1, to)

as_bytes(s) == as_bytes_of(s, 1, Len(s))

\* str::starts_with
starts_with(s, prefix) == Len(s) >= Len(prefix) /\ SubSeq(s, 1, Len(prefix)) = prefix

\* &s[n..] for a string whose first n characters are one byte each.
str_from(s, n) == SubSeq(s, n + 1, Len(s))

\* ------------------------------------------------------------ hex

\* val() of hex::decode: the value of one hex digit byte, -1 for any other byte.
HexVal(b) ==
    IF b >= 48 /\ b <= 57 THEN b - 48
    ELSE IF b >= 97 /\ b <= 102 THEN b - 97 + 10
    ELSE IF b >= 65 /\ b <= 70 THEN b - 65 + 10
    ELSE -1

\* hex::decode(&str) -> Result<Vec<u8>, FromHexError>
hex_decode(s) ==
    LET bs == as_bytes(s) IN
    IF Len(bs) % 2 # 0
    THEN [kind |-> "Err", bytes |-> <<>>, error |-> "OddLength"]
    ELSE IF \E i \in 1..Len(bs) : HexVal(bs[i]) < 0
    THEN [kind |-> "Err", bytes |-> <<>>, error |-> "InvalidHexCharacter"]
    ELSE [kind |-> "Ok",
          bytes |-> Lits([i \in 1..(Len(bs) \div 2) |->
                            HexVal(bs[2 * i - 1]) * 16 + HexVal(bs[2 * i])]),
          error |-> ""]

\* Result::unwrap: the value, or a panic carrying the error.
unwrap_bytes(r) ==
    IF r.kind = "Ok" THEN r ELSE [kind |-> "Panic", bytes |-> <<>>, error |-> r.error]

\* A parser that knows the lower-case prefix only and reports the error of
\* hex::decode instead of panicking on it.
parse_hex_lower_only(encoded) ==
    IF starts_with(encoded, <<"0", "x">>)
    THEN hex_decode(str_from(encoded, 2))
    ELSE hex_decode(encoded)

\* fn parse_hex(encoded: &str) -> Vec<u8>
parse_hex(encoded) ==
    IF starts_with(encoded, <<"0", "x">>) \/ starts_with(encoded, <<"0", "X">>)
    THEN unwrap_bytes(hex_decode(str_from(encoded, 2)))
    ELSE unwrap_bytes(hex_decode(encoded))

\* ------------------------------------------------------------ wire format

\* prost::encoding::encode_varint of an i64 cast to u64: 7 bits a byte, least
\* significant group first, the top bit set on every byte but the last.  A
\* negative value is sign-extended to 64 bits: nine groups and a final 1.
RECURSIVE PosVarint(_)
PosVarint(n) == IF n < 128 THEN <<n>> ELSE <<(n % 128) + 128>> \o PosVarint(n \div 128)

RECURSIVE NegVarint(_, _)
NegVarint(n, k) ==
    IF k = 0 THEN <<1>> ELSE <<(n % 128) + 128>> \o NegVarint(n \div 128, k - 1)

encode_varint(n) == Lits(IF n >= 0 THEN PosVarint(n) ELSE NegVarint(n, 9))

\* The key of a field: wire type 0 is a varint, 2 a length-delimited value.
encode_key(tag, wire) == Lits(PosVarint(tag * 8 + wire))

\* An int64, int32 or enum field: left out when it holds its default, 0.
int_field(tag, n) == IF n = 0 THEN <<>> ELSE encode_key(tag, 0) \o encode_varint(n)

\* A length-delimited value, always written.
delimited(tag, bs) ==
    encode_key(tag, 2) \o encode_varint(ByteLen(bs)) \o bs

\* A bytes or string field: left out when empty.
bytes_field(tag, bs) == IF bs = <<>> THEN <<>> ELSE delimited(tag, bs)

\* A repeated bytes field: every element written, in order.
RECURSIVE repeated_bytes_field(_, _)
repeated_bytes_field(tag, items) ==
    IF items = <<>> THEN <<>>
    ELSE delimited(tag, Head(items)) \o repeated_bytes_field(tag, Tail(items))

\* ------------------------------------------------------------ messages

\* proto2::contract::TransferContract
encode_TransferContract(m) ==
    bytes_field(1, m.owner_address) \o bytes_field(2, m.to_address)
        \o int_field(3, m.amount)

\* prost_types::Any
encode_Any(m) == bytes_field(1, Lits(as_bytes(m.type_url))) \o bytes_field(2, m.value)

\* proto2::chain::transaction::Contract
encode_Contract(m) ==
    int_field(1, m.type)
        \o (IF IsSome(m.parameter) THEN delimited(2, encode_Any(Unwrap(m.parameter)))
            ELSE <<>>)
        \o bytes_field(3, m.provider)
        \o bytes_field(4, m.contract_name)
        \o int_field(5, m.permission_id)

\* proto2::chain::transaction::Raw
encode_TransactionRaw(m) ==
    bytes_field(1, m.ref_block_bytes)
        \o int_field(3, m.ref_block_num)
        \o bytes_field(4, m.ref_block_hash)
        \o int_field(8, m.expiration)
        \o bytes_field(10, m.data)
        \o (IF IsSome(m.contract) THEN delimited(11, encode_Contract(Unwrap(m.contract)))
            ELSE <<>>)
        \o bytes_field(12, m.scripts)
        \o int_field(14, m.timestamp)
        \o int_field(18, m.fee_limit)

\* proto2::chain::transaction::Result
encode_Result(m) == int_field(1, m.fee) \o int_field(2, m.ret) \o int_field(3, m.contract_ret)

RECURSIVE repeated_Result_field(_, _)
repeated_Result_field(tag, items) ==
    IF items = <<>> THEN <<>>
    ELSE delimited(tag, encode_Result(Head(items)))
             \o repeated_Result_field(tag, Tail(items))

\* proto2::chain::Transaction
encode_Transaction(m) ==
    (IF IsSome(m.raw_data) THEN delimited(1, encode_TransactionRaw(Unwrap(m.raw_data)))
     ELSE <<>>)
        \o repeated_bytes_field(2, m.signature)
        \o repeated_Result_field(5, m.ret)

\* proto2::chain::block_header::Raw
encode_BlockHeaderRaw(m) ==
    int_field(1, m.timestamp)
        \o bytes_field(2, m.merkle_root_hash)
        \o bytes_field(3, m.parent_hash)
        \o int_field(7, m.number)
        \o int_field(8, m.witness_id)
        \o bytes_field(9, m.witness_address)
        \o int_field(10, m.version)
        \o bytes_field(11, m.account_state_root)

\* Default::default() of each message.
DefaultContract ==
    [type |-> 0, parameter |-> None, provider |-> <<>>, contract_name |-> <<>>,
     permission_id |-> 0]

DefaultTransactionRaw ==
    [ref_block_bytes |-> <<>>, ref_block_num |-> 0, ref_block_hash |-> <<>>,
     expiration |-> 0, data |-> <<>>, contract |-> None, scripts |-> <<>>,
     timestamp |-> 0, fee_limit |-> 0]

DefaultTransaction == [raw_data |-> None, signature |-> <<>>, ret |-> <<>>]

DefaultBlockHeaderRaw ==
    [timestamp |-> 0, merkle_root_hash |-> <<>>, parent_hash |-> <<>>, number |-> 0,
     witness_id |-> 0, witness_address |-> <<>>, version |-> 0,
     account_state_root |-> <<>>]

DefaultBlockHeader == [raw_data |-> None, witness_signature |-> <<>>]

DefaultBlock == [transactions |-> <<>>, block_header |-> None]

\* ContractType::TransferContract as i32
ContractType_TransferContract == 1

TransferContractTypeUrl ==
    << "t", "y", "p", "e", ".", "g", "o", "o", "g", "l", "e", "a", "p", "i", "s", ".",
       "c", "o", "m", "/", "p", "r", "o", "t", "o", "c", "o", "l", ".", "T", "r", "a",
       "n", "s", "f", "e", "r", "C", "o", "n", "t", "r", "a", "c", "t" >>

\* ------------------------------------------------------------ addresses

\* The text of a Base58Check address is held as the bytes its base-58 digits
\* denote: the payload and the four checksum bytes that follow it.
AddressLen == 21

ChecksumLen == 4

\* The checksum of a payload: the first four bytes of its double SHA-256.
b58_checksum(payload) == TakeBytes(Sha256(Sha256(payload)), ChecksumLen)

\* The text that encodes a payload with its right checksum.
b58encode_check(payload) == [payload |-> payload, check |-> b58_checksum(payload)]

\* keys::b58decode_check(&str) -> Result<Vec<u8>, Error>
b58decode_check(s) ==
    IF s.check = b58_checksum(s.payload)
    THEN [kind |-> "Ok", bytes |-> s.payload, error |-> ""]
    ELSE [kind |-> "Err", bytes |-> <<>>, error |-> "InvalidAddress"]

\* <keys::Address as FromStr>::from_str, then Address::as_bytes
parse_Address(s) ==
    LET decoded == b58decode_check(s) IN
    IF decoded.kind = "Ok" /\ ByteLen(decoded.bytes) # AddressLen
    THEN [kind |-> "Err", bytes |-> <<>>, error |-> "InvalidAddress"]
    ELSE decoded

\* ------------------------------------------------------------ merkle tree

\* One level up: adjacent nodes hashed in pairs, left to right, an odd last
\* node promoted unchanged (the rule that gives the reference root noted in
\* to_block: three leaves h1, h2, h3 have the root sha256(sha256(h1 h2) h3)).
merkle_level(nodes) ==
    [i \in 1..((Len(nodes) + 1) \div 2) |->
        IF 2 * i <= Len(nodes) THEN Sha256(nodes[2 * i - 1] \o nodes[2 * i])
        ELSE nodes[2 * i - 1]]

RECURSIVE merkle_reduce(_)
merkle_reduce(nodes) ==
    IF Len(nodes) = 1 THEN nodes[1] ELSE merkle_reduce(merkle_level(nodes))

\* MerkleTree::from_vec(hashes).root_hash(): the all-zero digest for no leaf,
\* else the leaves combined level by level until one node is left.
merkle_root(hashes) ==
    IF hashes = <<>> THEN Lits([i \in 1..H256Len |-> 0])
    ELSE merkle_reduce(hashes)

\* ------------------------------------------------------------ genesis.rs

\* The digest of the encoded raw data alone.
get_transaction_hash_raw_only(transaction) ==
    Sha256(IF IsSome(transaction.raw_data)
           THEN encode_TransactionRaw(Unwrap(transaction.raw_data))
           ELSE <<>>)

\* pub fn get_transaction_hash(transaction: &Transaction) -> H256
get_transaction_hash(transaction) == Sha256(encode_Transaction(transaction))

\* to_transaction with the two addresses of the transfer exchanged.
to_transaction_swapped(alloc, sender) ==
    LET to_address == parse_Address(alloc.address) IN
    IF to_address.kind = "Err"
    THEN [kind |-> "Err", trx |-> None, error |-> to_address.error]
    ELSE LET transfer_contract ==
                 [owner_address |-> to_address.bytes, to_address |-> sender,
                  amount |-> alloc.balance]
             any == [type_url |-> TransferContractTypeUrl,
                     value |-> encode_TransferContract(transfer_contract)]
             contract == [DefaultContract EXCEPT
                            !.type = ContractType_TransferContract,
                            !.parameter = Some(any)]
             raw == [DefaultTransactionRaw EXCEPT !.contract = Some(contract)]
             transaction == [DefaultTransaction EXCEPT !.raw_data = Some(raw)]
         IN  [kind |-> "Ok", trx |-> Some(transaction), error |-> ""]

\* Alloc::to_transaction(&self, sender: &[u8]) -> Result<Transaction, Box<dyn Error>>
to_transaction(alloc, sender) ==
    LET to_address == parse_Address(alloc.address) IN
    IF to_address.kind = "Err"
    THEN [kind |-> "Err", trx |-> None, error |-> to_address.error]
    ELSE LET transfer_contract ==
                 [owner_address |-> sender, to_address |-> to_address.bytes,
                  amount |-> alloc.balance]
             any == [type_url |-> TransferContractTypeUrl,
                     value |-> encode_TransferContract(transfer_contract)]
             contract == [DefaultContract EXCEPT
                            !.type = ContractType_TransferContract,
                            !.parameter = Some(any)]
             raw == [DefaultTransactionRaw EXCEPT !.contract = Some(contract)]
             transaction == [DefaultTransaction EXCEPT !.raw_data = Some(raw)]
         IN  [kind |-> "Ok", trx |-> Some(transaction), error |-> ""]

\* A collection that drops the entries whose address does not decode
\* (filter_map(Result::ok)) instead of stopping at the first.
RECURSIVE collect_transactions_skip_bad(_, _)
collect_transactions_skip_bad(allocs, sender) ==
    IF allocs = <<>> THEN [kind |-> "Ok", transactions |-> <<>>, error |-> ""]
    ELSE LET first == to_transaction(Head(allocs), sender)
             rest == collect_transactions_skip_bad(Tail(allocs), sender)
         IN  [rest EXCEPT !.transactions = first.trx \o rest.transactions]

\* allocs.iter().map(|alloc| alloc.to_transaction(&sender)).collect::<Result<Vec<_>, _>>():
\* the transactions in allocation order, or the first error met.
RECURSIVE collect_transactions(_, _)
collect_transactions(allocs, sender) ==
    IF allocs = <<>> THEN [kind |-> "Ok", transactions |-> <<>>, error |-> ""]
    ELSE LET first == to_transaction(Head(allocs), sender) IN
         IF first.kind = "Err"
         THEN [kind |-> "Err", transactions |-> <<>>, error |-> first.error]
         ELSE LET rest == collect_transactions(Tail(allocs), sender) IN
              IF rest.kind = "Err" THEN rest
              ELSE [rest EXCEPT !.transactions = first.trx \o rest.transactions]

\* The hashes in reverse order (.rev()).
transaction_hashes_reversed(transactions) ==
    [i \in 1..Len(transactions) |->
        Sha256(encode_Transaction(transactions[Len(transactions) + 1 - i]))]

\* transactions.iter().map(|trx| get_transaction_hash(trx)).collect::<Vec<_>>()
transaction_hashes(transactions) ==
    [i \in 1..Len(transactions) |-> get_transaction_hash(transactions[i])]

\* The header with the parent hash and the Merkle root in each other's field.
genesis_raw_header_swapped(cfg, parent_hash, root_hash) ==
    [DefaultBlockHeaderRaw EXCEPT
        !.number = 0,
        !.timestamp = cfg.timestamp,
        !.witness_address = Lits(as_bytes(cfg.mantra)),
        !.parent_hash = root_hash,
        !.merkle_root_hash = parent_hash]

\* The header with the producer taken from the first configured witness.
genesis_raw_header_first_witness(cfg, parent_hash, root_hash) ==
    [DefaultBlockHeaderRaw EXCEPT
        !.number = 0,
        !.timestamp = cfg.timestamp,
        !.witness_address = IF cfg.witnesses = <<>> THEN Lits(as_bytes(cfg.mantra))
                            ELSE cfg.witnesses[1].address.payload,
        !.parent_hash = parent_hash,
        !.merkle_root_hash = root_hash]

\* The BlockHeaderRaw literal of to_block.
genesis_raw_header(cfg, parent_hash, root_hash) ==
    [DefaultBlockHeaderRaw EXCEPT
        !.number = 0,
        !.timestamp = cfg.timestamp,
        !.witness_address = Lits(as_bytes(cfg.mantra)),
        !.parent_hash = parent_hash,
        !.merkle_root_hash = root_hash]

\* The Block literal of to_block.
genesis_block(raw_header, transactions) ==
    LET header == [DefaultBlockHeader EXCEPT !.raw_data = Some(raw_header)]
    IN  [DefaultBlock EXCEPT !.block_header = Some(header), !.transactions = transactions]

\* GenesisConfig::to_block(&self) -> Result<Block, Box<dyn Error>>; kind is
\* "Ok", "Err" (the Err returned to the caller) or "Panic" (the call unwinds).
to_block(cfg) ==
    LET sender == b58decode_check(cfg.creator) IN
    IF sender.kind = "Err"
    THEN [kind |-> "Err", block |-> None, error |-> sender.error]
    ELSE LET collected == collect_transactions(cfg.allocs, sender.bytes) IN
         IF collected.kind = "Err"
         THEN [kind |-> "Err", block |-> None, error |-> collected.error]
         ELSE LET transactions == collected.transactions
                  root_hash == merkle_root(transaction_hashes(transactions))
                  parent == parse_hex(cfg.parent_hash)
              IN  IF parent.kind = "Panic"
                  THEN [kind |-> "Panic", block |-> None, error |-> parent.error]
                  ELSE [kind |-> "Ok",
                        block |-> Some(genesis_block(
                                     genesis_raw_header(cfg, parent.bytes, root_hash),
                                     transactions)),
                        error |-> ""]

\* block_hash[..8] overwritten by the given bytes.
write_prefix(hash, bytes) == bytes \o DropBytes(hash, ByteLen(bytes))

\* pub fn calculate_block_id(block: &Block) -> H256; each unwrap() of an absent
\* header or raw data panics.
calculate_block_id(blk) ==
    IF ~IsSome(blk.block_header) \/ ~IsSome(Unwrap(blk.block_header).raw_data)
    THEN [kind |-> "Panic", id |-> <<>>]
    ELSE LET raw_header == Unwrap(Unwrap(blk.block_header).raw_data)
             block_numer == raw_header.number
             block_hash == Sha256(encode_BlockHeaderRaw(raw_header))
         IN  [kind |-> "Ok", id |-> write_prefix(block_hash, BE_write_i64(block_numer))]

\* ------------------------------------------------------------ inputs

MaxAllocs == 3

MaxHexLen == 3

\* Raw addresses: the 0x41 prefix and twenty bytes k.
Addr(k) == Lits(<<65>> \o [i \in 1..(AddressLen - 1) |-> k])

\* A payload one byte short of an address.
ShortPayload == Lits(<<65>> \o [i \in 1..(AddressLen - 2) |-> 3])

GoodText(k) == b58encode_check(Addr(k))

\* An address text with a corrupted character: the checksum is that of Addr(1),
\* the digits before it now denote Addr(9).
CorruptText == [payload |-> Addr(9), check |-> b58_checksum(Addr(1))]

\* A text whose checksum is right for its 20-byte payload.
ShortText == b58encode_check(ShortPayload)

AllocEntries ==
    { [address |-> GoodText(1), name |-> <<"Z", "i", "o", "n">>, balance |-> 100],
      [address |-> GoodText(2), name |-> <<"S", "u", "n">>, balance |-> -1],
      [address |-> CorruptText, name |-> <<"B">>, balance |-> 7],
      [address |-> ShortText, name |-> <<>>, balance |-> 0] }

AllocLists == UNION { [1..n -> AllocEntries] : n \in 0..MaxAllocs }

Creators == { GoodText(7), CorruptText, ShortText }

WitnessLists ==
    { <<>>,
      << [address |-> GoodText(5), url |-> <<"u">>, votes |-> 9],
         [address |-> CorruptText, url |-> <<>>, votes |-> -3] >> }

Parent32 ==
    << "e", "5", "8", "f", "3", "3", "f", "9", "b", "a", "f", "9", "3", "0", "5", "d",
       "c", "6", "f", "8", "2", "b", "9", "f", "1", "9", "3", "4", "e", "a", "8", "f",
       "0", "a", "d", "e", "2", "d", "e", "f", "b", "9", "5", "1", "2", "5", "8", "d",
       "5", "0", "1", "6", "7", "0", "2", "8", "c", "7", "8", "0", "3", "5", "1", "f" >>

ParentHashes ==
    { Parent32,
      <<"0", "X">> \o Parent32,
      <<"0", "x", "a", "b">>,
      <<"0", "x", "a", "b", "c">>,
      <<"z", "z">> }

Timestamps == { 0, 1529891469 }

Mantras == { <<>>, <<"A", " ", "e_acute">> }

Configs ==
    [timestamp : Timestamps, parent_hash : ParentHashes, witnesses : WitnessLists,
     allocs : AllocLists, mantra : Mantras, creator : Creators]

\* Block numbers for calculate_block_id, both signs and every byte position
\* inside the integer width.
BlockNumbers == { 0, 1, 255, 256, 65535, 16777216, 2147483647, -1, -256, -2147483647 - 1 }

HeaderRaws ==
    { [DefaultBlockHeaderRaw EXCEPT
          !.number = n, !.timestamp = t, !.parent_hash = p,
          !.merkle_root_hash = r, !.witness_address = w] :
        n \in BlockNumbers, t \in Timestamps,
        p \in { <<>>, Lits([i \in 1..H256Len |-> 17]) },
        r \in { <<>>, merkle_root(<<>>), merkle_root(<<Sha256(<<>>)>>) },
        w \in { <<>>, Lits(<<65, 32>>) } }

Blocks ==
    { DefaultBlock, [DefaultBlock EXCEPT !.block_header = Some(DefaultBlockHeader)] }
      \cup { genesis_block(raw, <<>>) : raw \in HeaderRaws }

\* Transactions for get_transaction_hash: with and without raw data, signatures
\* and results.
SampleRaws ==
    { None,
      Some(DefaultTransactionRaw),
      to_transaction([address |-> GoodText(1), name |-> <<>>, balance |-> 100],
                     Addr(7)).trx[1].raw_data,
      to_transaction([address |-> GoodText(2), name |-> <<>>, balance |-> 100],
                     Addr(7)).trx[1].raw_data }

SampleSignatures == { <<>>, << Lits(<<1, 2, 3>>) >>, << <<>> >> }

SampleResults ==
    { <<>>,
      << [fee |-> 0, ret |-> 0, contract_ret |-> 0] >>,
      << [fee |-> 0, ret |-> 0, contract_ret |-> 1] >> }

Transactions == [raw_data : SampleRaws, signature : SampleSignatures, ret : SampleResults]

HexAlphabet == { "0", "9", "a", "F", "x", "X", "g" }

HexInputs == UNION { [1..n -> HexAlphabet] : n \in 0..MaxHexLen }

\* ------------------------------------------------------------ state

VARIABLES
    config,     \* the GenesisConfig that was loaded
    outcome,    \* what config.to_block() gave, once called
    block,      \* the Block handed to calculate_block_id, if any
    block_id,   \* what calculate_block_id(block) gave, once called
    trx,        \* two transactions handed to get_transaction_hash
    trx_hash,   \* their hashes, once computed
    hex_in,     \* a string h handed to parse_hex as h, "0x" h and "0X" h
    hex_out     \* the three results, once computed

vars == <<config, outcome, block, block_id, trx, trx_hash, hex_in, hex_out>>

NotCalled == [kind |-> "NotCalled", block |-> None, error |-> ""]

NoId == [kind |-> "NotCalled", id |-> <<>>]

NoBytes == [kind |-> "NotCalled", bytes |-> <<>>, error |-> ""]

IdleConfig ==
    [timestamp |-> 0, parent_hash |-> <<>>, witnesses |-> <<>>, allocs |-> <<>>,
     mantra |-> <<>>, creator |-> GoodText(7)]

IdleGenesis == config = IdleConfig /\ outcome = NotCalled

IdleBlockId == block = None /\ block_id = NoId

IdleTrx == trx = <<DefaultTransaction, DefaultTransaction>> /\ trx_hash = <<None, None>>

IdleHex == hex_in = <<>> /\ hex_out = [plain |-> NoBytes, lower |-> NoBytes, upper |-> NoBytes]

\* ------------------------------------------------------------ genesis build

Init == /\ config \in Configs
        /\ outcome = NotCalled
        /\ IdleBlockId /\ IdleTrx /\ IdleHex

\* let block = conf.to_block()
ToBlock ==
    /\ outcome.kind = "NotCalled"
    /\ outcome' = to_block(config)
    /\ block' = outcome'.block
    /\ UNCHANGED <<config, block_id, trx, trx_hash, hex_in, hex_out>>

\* calculate_block_id(&block)
CalculateBlockId ==
    /\ IsSome(block)
    /\ block_id.kind = "NotCalled"
    /\ block_id' = calculate_block_id(Unwrap(block))
    /\ UNCHANGED <<config, outcome, block, trx, trx_hash, hex_in, hex_out>>

Next == ToBlock \/ CalculateBlockId

Spec == Init /\ [][Next]_vars

\* ------------------------------------------------------------ block id alone

InitBlockId == /\ block \in { Some(b) : b \in Blocks }
               /\ block_id = NoId
               /\ IdleGenesis /\ IdleTrx /\ IdleHex

NextBlockId == CalculateBlockId

SpecBlockId == InitBlockId /\ [][NextBlockId]_vars

\* ------------------------------------------------------------ transaction hash

InitTrxHash == /\ trx \in Transactions \X Transactions
               /\ trx_hash = <<None, None>>
               /\ IdleGenesis /\ IdleBlockId /\ IdleHex

\* get_transaction_hash(&trx[i])
GetTransactionHash(i) ==
    /\ trx_hash[i] = None
    /\ trx_hash' = [trx_hash EXCEPT ![i] = Some(get_transaction_hash(trx[i]))]
    /\ UNCHANGED <<config, outcome, block, block_id, trx, hex_in, hex_out>>

NextTrxHash == \E i \in 1..2 : GetTransactionHash(i)

SpecTrxHash == InitTrxHash /\ [][NextTrxHash]_vars

\* ------------------------------------------------------------ parse_hex alone

InitParseHex == /\ hex_in \in HexInputs
                /\ hex_out = [plain |-> NoBytes, lower |-> NoBytes, upper |-> NoBytes]
                /\ IdleGenesis /\ IdleBlockId /\ IdleTrx

\* parse_hex(h)
ParsePlain ==
    /\ hex_out.plain.kind = "NotCalled"
    /\ hex_out' = [hex_out EXCEPT !.plain = parse_hex(hex_in)]
    /\ UNCHANGED <<config, outcome, block, block_id, trx, trx_hash, hex_in>>

\* parse_hex("0x" + h)
ParseLower ==
    /\ hex_out.lower.kind = "NotCalled"
    /\ hex_out' = [hex_out EXCEPT !.lower = parse_hex(<<"0", "x">> \o hex_in)]
    /\ UNCHANGED <<config, outcome, block, block_id, trx, trx_hash, hex_in>>

\* parse_hex("0X" + h)
ParseUpper ==
    /\ hex_out.upper.kind = "NotCalled"
    /\ hex_out' = [hex_out EXCEPT !.upper = parse_hex(<<"0", "X">> \o hex_in)]
    /\ UNCHANGED <<config, outcome, block, block_id, trx, trx_hash, hex_in>>

NextParseHex == ParsePlain \/ ParseLower \/ ParseUpper

SpecParseHex == InitParseHex /\ [][NextParseHex]_vars

\* ------------------------------------------------------------ properties

Called == outcome.kind # "NotCalled"

\* The block to_block returned and its header raw data.
ReturnedBlock == Unwrap(outcome.block)

ReturnedRaw == Unwrap(Unwrap(ReturnedBlock.block_header).raw_data)

\* The text decodes: its checksum is the one of its payload.
ChecksumOk(text) == text.check = b58_checksum(text.payload)

AddressOk(text) == ChecksumOk(text) /\ ByteLen(text.payload) = AddressLen

AllAddressesValid ==
    /\ ChecksumOk(config.creator)
    /\ \A i \in 1..Len(config.allocs) : AddressOk(config.allocs[i].address)

HexDigitChars ==
    { "0", "1", "2", "3", "4", "5", "6", "7", "8", "9",
      "a", "b", "c", "d", "e", "f", "A", "B", "C", "D", "E", "F" }

IsHexString(s) == \A i \in 1..Len(s) : s[i] \in HexDigitChars

\* The digits of a parent-hash string: the string without its optional prefix.
HexBody(s) ==
    IF Len(s) >= 2 /\ s[1] = "0" /\ s[2] \in {"x", "X"} THEN SubSeq(s, 3, Len(s)) ELSE s

HashedBoth == IsSome(trx_hash[1]) /\ IsSome(trx_hash[2])

\* C1 as stated: two transactions with equal raw_data get the same identifier
\* from get_transaction_hash, whatever their signatures and results.
C1_RawDataOnly ==
    HashedBoth /\ trx[1].raw_data = trx[2].raw_data => trx_hash[1] = trx_hash[2]

\* C1 amended: get_transaction_hash digests the encoding of the whole record,
\* so two transactions with equal raw_data get the same identifier exactly when
\* their signatures and their results are equal too.
C1_WholeRecord ==
    HashedBoth /\ trx[1].raw_data = trx[2].raw_data =>
        /\ trx_hash[1] = Some(Sha256(encode_Transaction(trx[1])))
        /\ (trx_hash[1] = trx_hash[2]
              <=> (trx[1].signature = trx[2].signature /\ trx[1].ret = trx[2].ret))

\* A transfer transaction and the same transaction with a result attached have
\* been hashed, to different identifiers.
C1_Witness ==
    /\ HashedBoth
    /\ trx[1].raw_data = trx[2].raw_data
    /\ IsSome(trx[1].raw_data) /\ IsSome(Unwrap(trx[1].raw_data).contract)
    /\ trx[1].signature = <<>> /\ trx[2].signature = <<>>
    /\ trx[1].ret = <<>> /\ trx[2].ret # <<>>
    /\ trx_hash[1] # trx_hash[2]

HasRawHeader(b) == IsSome(b.block_header) /\ IsSome(Unwrap(b.block_header).raw_data)

\* C2: for every block with a header that has raw data, calculate_block_id
\* returns 32 bytes whose first 8, read as a big-endian signed 64-bit integer,
\* are the header's number, and whose other 24 are bytes 8..31 of the digest of
\* the encoded header raw data.
C2_BlockIdEmbedsNumber ==
    block_id.kind # "NotCalled" /\ HasRawHeader(Unwrap(block)) =>
        LET raw == Unwrap(Unwrap(Unwrap(block).block_header).raw_data)
            id == block_id.id
        IN  /\ block_id.kind = "Ok"
            /\ ByteLen(id) = H256Len
            /\ AllLit(TakeBytes(id, I64Len))
            /\ ReadsBigEndianAs(TakeBytes(id, I64Len), raw.number)
            /\ DropBytes(id, I64Len) = <<Slice(encode_BlockHeaderRaw(raw), 8, 31)>>

\* The id of a block numbered -256 has been computed: its first 8 bytes are
\* ff ff ff ff ff ff ff 00.
C2_Witness ==
    /\ block_id.kind = "Ok"
    /\ Unwrap(Unwrap(Unwrap(block).block_header).raw_data).number = -256
    /\ TakeBytes(block_id.id, I64Len) = Lits(<<255, 255, 255, 255, 255, 255, 255, 0>>)

\* C3: in every block to_block returns, the header's merkle_root_hash is the
\* Merkle root of get_transaction_hash over the block's transactions, in the
\* order they have in the block.
C3_MerkleRootOfTransactions ==
    outcome.kind = "Ok" =>
        ReturnedRaw.merkle_root_hash =
            merkle_root([i \in 1..Len(ReturnedBlock.transactions) |->
                            get_transaction_hash(ReturnedBlock.transactions[i])])

\* A block with three transactions, the first two different, has been returned:
\* its root is the digest of the first pair's digest and the third hash.
C3_Witness ==
    /\ outcome.kind = "Ok"
    /\ Len(ReturnedBlock.transactions) = 3
    /\ ReturnedBlock.transactions[1] # ReturnedBlock.transactions[2]
    /\ ReturnedRaw.merkle_root_hash =
           Sha256(Sha256(get_transaction_hash(ReturnedBlock.transactions[1])
                           \o get_transaction_hash(ReturnedBlock.transactions[2]))
                    \o get_transaction_hash(ReturnedBlock.transactions[3]))

\* C4: when the creator or the address of any allocation does not decode,
\* to_block returns an error and no block.
C4_BadAddressAborts ==
    Called /\ ~AllAddressesValid => outcome.kind = "Err" /\ outcome.block = None

\* to_block was called with a good creator, a good first allocation and a second
\* allocation whose address has a corrupted character, and returned an error.
C4_Witness ==
    /\ ChecksumOk(config.creator)
    /\ Len(config.allocs) = 2
    /\ AddressOk(config.allocs[1].address)
    /\ ~ChecksumOk(config.allocs[2].address)
    /\ outcome.kind = "Err"

\* C5: with every address valid, a parentHash holding a character that is no
\* hex digit makes to_block return an error to its caller.
C5_MalformedHexIsReturned ==
    Called /\ AllAddressesValid /\ ~IsHexString(HexBody(config.parent_hash)) =>
        outcome.kind = "Err"

\* C6: with every address valid, a parentHash of hex digits that does not
\* decode to 32 bytes makes to_block return an error, and so the parent_hash of
\* every returned block is 32 bytes long.
C6_ParentHashIs32Bytes ==
    /\ Called /\ AllAddressesValid /\ IsHexString(HexBody(config.parent_hash))
         /\ Len(HexBody(config.parent_hash)) # 2 * H256Len
       => outcome.kind = "Err"
    /\ outcome.kind = "Ok" => ByteLen(ReturnedRaw.parent_hash) = H256Len

ParsedAll ==
    /\ hex_out.plain.kind # "NotCalled"
    /\ hex_out.lower.kind # "NotCalled"
    /\ hex_out.upper.kind # "NotCalled"

\* C7: for a string h of hex digits, parse_hex gives the same result for h, for
\* "0x" h and for "0X" h.
C7_PrefixIgnored ==
    ParsedAll /\ IsHexString(hex_in) =>
        hex_out.lower = hex_out.plain /\ hex_out.upper = hex_out.plain

\* "aF", "0xaF" and "0XaF" have been parsed, each to the byte 0xaf.
C7_Witness ==
    /\ ParsedAll
    /\ hex_in = <<"a", "F">>
    /\ hex_out.plain = [kind |-> "Ok", bytes |-> Lits(<<175>>), error |-> ""]
    /\ hex_out.upper.kind = "Ok"

\* The transaction to_block is to build for one allocation.
ExpectedTransfer(alloc) ==
    [owner_address |-> config.creator.payload,
     to_address |-> alloc.address.payload,
     amount |-> alloc.balance]

IsTransferOf(transaction, alloc) ==
    /\ transaction.signature = <<>> /\ transaction.ret = <<>>
    /\ IsSome(transaction.raw_data)
    /\ LET raw == Unwrap(transaction.raw_data) IN
       /\ raw = [DefaultTransactionRaw EXCEPT !.contract = raw.contract]
       /\ IsSome(raw.contract)
       /\ LET contract == Unwrap(raw.contract) IN
          /\ contract.type = ContractType_TransferContract
          /\ IsSome(contract.parameter)
          /\ Unwrap(contract.parameter).type_url = TransferContractTypeUrl
          /\ Unwrap(contract.parameter).value
                 = encode_TransferContract(ExpectedTransfer(alloc))

\* C8: every block to_block returns holds one transaction per allocation, in
\* allocation order, the i-th carrying one transfer contract from the decoded
\* creator to the decoded address of the i-th allocation, of its balance.
C8_OneTransferPerAlloc ==
    outcome.kind = "Ok" =>
        /\ Len(ReturnedBlock.transactions) = Len(config.allocs)
        /\ \A i \in 1..Len(config.allocs) :
               IsTransferOf(ReturnedBlock.transactions[i], config.allocs[i])

\* A block has been returned for two allocations to different addresses with
\* different balances.
C8_Witness ==
    /\ outcome.kind = "Ok"
    /\ Len(config.allocs) = 2
    /\ config.allocs[1].address # config.allocs[2].address
    /\ config.allocs[1].balance = -1
    /\ config.allocs[2].balance = 100
    /\ Len(ReturnedBlock.transactions) = 2

\* C9: the header raw data of every block to_block returns has number 0, the
\* configured timestamp, the bytes of the mantra string as witness_address, the
\* parsed parentHash as parent_hash and the Merkle root as merkle_root_hash.
C9_HeaderFields ==
    outcome.kind = "Ok" =>
        /\ ReturnedRaw.number = 0
        /\ ReturnedRaw.timestamp = config.timestamp
        /\ ReturnedRaw.witness_address = Lits(as_bytes(config.mantra))
        /\ ReturnedRaw.parent_hash = hex_decode(HexBody(config.parent_hash)).bytes
        /\ ReturnedRaw.merkle_root_hash
               = merkle_root(transaction_hashes(ReturnedBlock.transactions))
        /\ ReturnedRaw = [DefaultBlockHeaderRaw EXCEPT
                            !.timestamp = ReturnedRaw.timestamp,
                            !.witness_address = ReturnedRaw.witness_address,
                            !.parent_hash = ReturnedRaw.parent_hash,
                            !.merkle_root_hash = ReturnedRaw.merkle_root_hash]

\* A block has been returned for a configuration with a non-zero timestamp, a
\* mantra of three characters (four bytes) and a prefixed parentHash.
C9_Witness ==
    /\ outcome.kind = "Ok"
    /\ config.timestamp = 1529891469
    /\ config.mantra = <<"A", " ", "e_acute">>
    /\ ReturnedRaw.witness_address = Lits(<<65, 32, 195, 169>>)
    /\ config.parent_hash = <<"0", "X">> \o Parent32
    /\ ByteLen(ReturnedRaw.parent_hash) = H256Len
    /\ config.allocs # <<>>

\* C10: to_block gives the same outcome, and calculate_block_id the same id, for
\* every other witnesses list in the same configuration.
C10_WitnessesIgnored ==
    \A w \in WitnessLists :
        LET other == to_block([config EXCEPT !.witnesses = w]) IN
        /\ Called => other = outcome
        /\ block_id.kind # "NotCalled" =>
               calculate_block_id(Unwrap(other.block)) = block_id

\* A block and its id have been computed for a configuration that lists
\* witnesses.
C10_Witness ==
    /\ outcome.kind = "Ok"
    /\ block_id.kind = "Ok"
    /\ config.witnesses # <<>>

====
